---- MODULE Spec2Model ----
(***************************************************************************)
(* Model of app.py, the Indian property insurance underwriting tool.       *)
(*                                                                         *)
(* Units.  Latitudes and longitudes are integers in units of 1e-4 degree   *)
(* (20.5937 is 205937).  Elevations are integers in millimetres (5 m is    *)
(* 5000).  Distances are integers in metres.  min_time is kept exact as an *)
(* integer number of 1/2000 minute (dist_km / 40 * 60 = dist_m * 3/2000),  *)
(* and a rounded response time is an integer number of tenths of a minute. *)
(*                                                                         *)
(* Python values that may be None or of a foreign type are records with a  *)
(* type tag t: [t |-> "None"], [t |-> "num", n |-> ...], [t |-> "str"] ... *)
(***************************************************************************)
EXTENDS Integers, Sequences, FiniteSets, TLC

VARIABLES selected_location, lat_input, lon_input, exposure_df, rng, call, prev

vars == <<selected_location, lat_input, lon_input, exposure_df, rng, call, prev>>

(***************************************************************************)
(* Bounds of the model                                                     *)
(***************************************************************************)
\* largest num_points passed to generate_surrounding_exposure
MaxPoints == 3
\* how far outside the India box a typed coordinate may lie (1e-4 degree)
Overshoot == 1
\* number of draws another user of the global generator takes at once
MaxOtherDraws == 2

(***************************************************************************)
(* Python values                                                           *)
(***************************************************************************)
PyNone == [t |-> "None"]
PyNum(x) == [t |-> "num", n |-> x]
PyStr(s) == [t |-> "str", s |-> s]
PyBool(b) == [t |-> "bool", b |-> b]
PyList(xs) == [t |-> "list", items |-> xs]
\* a JSON object: the keys it has and the value under each
PyDict(ks, f) == [t |-> "dict", keys |-> ks, val |-> f]

IsNone(v) == v.t = "None"
IsNum(v) == v.t = "num"

Abs(x) == IF x < 0 THEN -x ELSE x

(***************************************************************************)
(* The global numpy generator (np.random).  The Mersenne Twister is        *)
(* modelled by a full-period linear congruential generator on 0..63: what  *)
(* the program relies on is that seed(s) fixes the state and that every    *)
(* draw advances it.                                                       *)
(***************************************************************************)
RngStates == 0..63

\* np.random.seed(seed): the state depends on the seed only
np_random_seed_noreseed(state, seed) == state

np_random_seed(state, seed) == seed % 64

\* one step of the generator
rng_step(state) == (13 * state + 7) % 64

RECURSIVE rng_after(_, _)
\* the state after k draws
rng_after(state, k) == IF k = 0 THEN state ELSE rng_after(rng_step(state), k - 1)

\* np.random.rand(): a float in [0, 1), here in hundredths (0..99)
rand_value(state) == (state * 100) \div 64

\* np.random.choice(["Low", "Medium", "High"])
risk_choices == <<"Low", "Medium", "High">>

choice_value(state) == risk_choices[((state \div 4) % 3) + 1]

(***************************************************************************)
(* generate_surrounding_exposure(lat, lon, num_points)                     *)
(* (rand - 0.5) / 100 degrees is rand_value - 50 units of 1e-4 degree.     *)
(* Returns the data frame (a sequence of rows) and the generator state     *)
(* the call leaves behind.                                                 *)
(***************************************************************************)
generate_surrounding_exposure(state, lat, lon, num_points) ==
    LET s0 == np_random_seed(state, 42)
        lats == [i \in 1..num_points |-> lat + (rand_value(rng_after(s0, i)) - 50)]
        lons == [i \in 1..num_points |->
                    lon + (rand_value(rng_after(s0, num_points + i)) - 50)]
        risk_levels == [i \in 1..num_points |->
                    choice_value(rng_after(s0, 2 * num_points + i))]
    IN  [df  |-> [i \in 1..num_points |->
                    [lat |-> lats[i], lon |-> lons[i], risk |-> risk_levels[i]]],
         rng |-> rng_after(s0, 3 * num_points)]

\* the default of the num_points parameter
DefaultNumPoints == 5

(***************************************************************************)
(* Streamlit session: viewport, number inputs, "Update Location"           *)
(***************************************************************************)
ViewportLatitude == 205937
ViewportLongitude == 789629

LatMinValue == 60000
LatMaxValue == 370000
LonMinValue == 680000
LonMaxValue == 975000

\* st.number_input(min_value, max_value): the widget keeps the value in range
number_input_noclamp(v, min_value, max_value) == v

number_input(v, min_value, max_value) ==
    IF v < min_value THEN min_value
    ELSE IF v > max_value THEN max_value
    ELSE v

\* what a user may type into the two fields
TypedLats == {LatMinValue - Overshoot, LatMinValue, 129500, 190150,
              LatMaxValue, LatMaxValue + Overshoot}
TypedLons == {LonMinValue - Overshoot, LonMinValue, 776000, 728500,
              LonMaxValue, LonMaxValue + Overshoot}

NoCall == [op |-> "none"]

\* one run of the script body for a given selected location: lines 169-188
ScriptRun(loc) ==
    generate_surrounding_exposure(rng, loc[1], loc[2], DefaultNumPoints)

Init ==
    /\ selected_location = <<ViewportLatitude, ViewportLongitude>>
    /\ lat_input = ViewportLatitude
    /\ lon_input = ViewportLongitude
    /\ \E fresh \in RngStates :
          LET run == generate_surrounding_exposure(fresh, ViewportLatitude,
                        ViewportLongitude, DefaultNumPoints)
          IN  exposure_df = run.df /\ rng = run.rng
    /\ call = NoCall
    /\ prev = NoCall

\* the user edits the Latitude field; the script reruns
EditLatitude ==
    \E typed \in TypedLats :
        /\ lat_input' = number_input(typed, LatMinValue, LatMaxValue)
        /\ LET run == ScriptRun(selected_location)
           IN  exposure_df' = run.df /\ rng' = run.rng
        /\ UNCHANGED <<selected_location, lon_input, call, prev>>

\* the user edits the Longitude field; the script reruns
EditLongitude ==
    \E typed \in TypedLons :
        /\ lon_input' = number_input(typed, LonMinValue, LonMaxValue)
        /\ LET run == ScriptRun(selected_location)
           IN  exposure_df' = run.df /\ rng' = run.rng
        /\ UNCHANGED <<selected_location, lat_input, call, prev>>

\* the "Update Location" button: assignment, then st.experimental_rerun()
UpdateLocation ==
    /\ selected_location' = <<lat_input, lon_input>>
    /\ lat_input' = selected_location'[1]
    /\ lon_input' = selected_location'[2]
    /\ LET run == ScriptRun(selected_location')
       IN  exposure_df' = run.df /\ rng' = run.rng
    /\ UNCHANGED <<call, prev>>

NextSession == EditLatitude \/ EditLongitude \/ UpdateLocation

SpecSession == Init /\ [][NextSession]_vars

\* History of the calls of the module's functions.  call is the last call
\* (function, arguments, result); prev is the call before it when both are
\* calls of the same function and the function is one whose calls are
\* compared with each other, and NoCall otherwise.
Compared == {"classify_flood_risk", "estimate_response_time",
             "generate_surrounding_exposure"}

Record(c) ==
    /\ call' = c
    /\ prev' = IF c.op \in Compared /\ call.op = c.op THEN call ELSE NoCall

Session == <<selected_location, lat_input, lon_input, exposure_df>>

(***************************************************************************)
(* get_elevation(lat, lon)                                                 *)
(* A response of the elevation service: whether requests.get raised, the   *)
(* HTTP status, whether the body parses as JSON and the parsed value.      *)
(***************************************************************************)
Response(transport_ok, status, json_ok, body) ==
    [transport_ok |-> transport_ok, status |-> status,
     json_ok |-> json_ok, body |-> body]

\* bool(v) of Python
Truthy(v) ==
    CASE v.t = "None" -> FALSE
      [] v.t = "num"  -> v.n # 0
      [] v.t = "bool" -> v.b
      [] v.t = "str"  -> v.s # ""
      [] v.t = "list" -> Len(v.items) > 0
      [] v.t = "dict" -> v.keys # {}

\* len(v) is defined
HasLen(v) == v.t \in {"str", "list", "dict"}

\* v.get(...) is defined
HasGet(v) == v.t = "dict"

\* d.get(k) of a dict
DictGet(d, k) == IF k \in d.keys THEN d.val[k] ELSE PyNone

\* the value returned and whether st.error was shown; "raised" is always
\* FALSE because the except clause catches Exception
Returned(v, shown) == [value |-> v, error_shown |-> shown, raised |-> FALSE]

get_elevation_first_item(results) ==
    IF results.t # "list"
    THEN Returned(PyNone, TRUE)              \* "abc"[0].get, {..}[0]: raises
    ELSE LET first == results.items[1]
         IN  IF HasGet(first)
             THEN Returned(DictGet(first, "elevation"), FALSE)
             ELSE Returned(PyNone, TRUE)     \* AttributeError

get_elevation(response) ==
    IF ~response.transport_ok THEN Returned(PyNone, TRUE)
    ELSE IF response.status >= 400 THEN Returned(PyNone, TRUE)
    ELSE IF ~response.json_ok THEN Returned(PyNone, TRUE)
    ELSE IF ~HasGet(response.body) THEN Returned(PyNone, TRUE)
    ELSE LET results == DictGet(response.body, "results")
         IN  IF ~Truthy(results) THEN Returned(PyNone, FALSE)
             ELSE IF ~HasLen(results) THEN Returned(PyNone, TRUE)
             ELSE get_elevation_first_item(results)

(***************************************************************************)
(* classify_flood_risk(elevation)                                          *)
(***************************************************************************)
HighBelow == 5000
MediumBelow == 15000

\* elevation < limit of Python: defined for numbers (and bools, as 0 and 1)
Comparable(elevation) == elevation.t \in {"num", "bool"}

AsNumber(elevation) ==
    IF elevation.t = "bool" THEN (IF elevation.b THEN 1000 ELSE 0) ELSE elevation.n

classify_flood_risk_inclusive(elevation) ==
    IF IsNone(elevation) THEN "Unknown"
    ELSE IF ~Comparable(elevation) THEN "TypeError"
    ELSE IF AsNumber(elevation) <= HighBelow THEN "High Flood Risk"
    ELSE IF AsNumber(elevation) <= MediumBelow THEN "Medium Flood Risk"
    ELSE "Low Flood Risk"

classify_flood_risk_swapped(elevation) ==
    IF IsNone(elevation) THEN "Unknown"
    ELSE IF ~Comparable(elevation) THEN "TypeError"
    ELSE IF AsNumber(elevation) < HighBelow THEN "Medium Flood Risk"
    ELSE IF AsNumber(elevation) < MediumBelow THEN "High Flood Risk"
    ELSE "Low Flood Risk"

classify_flood_risk(elevation) ==
    IF IsNone(elevation) THEN "Unknown"
    ELSE IF ~Comparable(elevation) THEN "TypeError"
    ELSE IF AsNumber(elevation) < HighBelow THEN "High Flood Risk"
    ELSE IF AsNumber(elevation) < MediumBelow THEN "Medium Flood Risk"
    ELSE "Low Flood Risk"

\* elevations of the model: whole metres up to ElevSpan either side of zero,
\* and the millimetres next to the two thresholds
ElevSpan == 20

Elevations ==
    {k * 1000 : k \in (-ElevSpan)..ElevSpan}
        \cup {HighBelow - 1, HighBelow + 1, MediumBelow - 1, MediumBelow + 1}

\* bodies the service may answer with
Item(v) == PyDict({"elevation"}, [k \in {"elevation"} |-> v])
Body(results) == PyDict({"results"}, [k \in {"results"} |-> results])
EmptyDict == PyDict({}, <<>>)

Bodies == <<
    PyList(<<>>),                                          \* []
    PyStr("error"),                                        \* "error"
    EmptyDict,                                             \* {}
    Body(PyNone),                                          \* {"results": null}
    Body(PyList(<<>>)),                                    \* {"results": []}
    Body(PyNum(7)),                                        \* {"results": 7}
    Body(PyBool(TRUE)),                                    \* {"results": true}
    Body(PyStr("abc")),                                    \* {"results": "abc"}
    Body(PyDict({"a"}, [k \in {"a"} |-> PyNum(1)])),       \* {"results": {"a": 1}}
    Body(PyList(<<PyNum(7)>>)),                            \* {"results": [7]}
    Body(PyList(<<PyNone>>)),                              \* {"results": [null]}
    Body(PyList(<<EmptyDict>>)),                           \* {"results": [{}]}
    Body(PyList(<<Item(PyNone)>>)),                        \* [{"elevation": null}]
    Body(PyList(<<Item(PyNum(2000))>>)),                   \* [{"elevation": 2.0}]
    Body(PyList(<<Item(PyNum(0))>>)),                      \* [{"elevation": 0}]
    Body(PyList(<<Item(PyNum(12000)), Item(PyNum(99000))>>)),
    Body(PyList(<<Item(PyStr("12"))>>)),                   \* [{"elevation": "12"}]
    Body(PyList(<<Item(PyList(<<PyNum(12000)>>))>>)),      \* [{"elevation": [12]}]
    Body(PyList(<<Item(PyBool(TRUE))>>)) >>                \* [{"elevation": true}]

Statuses == {200, 404, 503}

\* the request fails, or answers with an error status, or with a body that
\* is not JSON, or with one of the bodies above (body is an index of Bodies)
Responses ==
    {[transport_ok |-> FALSE, status |-> 200, json_ok |-> FALSE, body |-> 1]}
    \cup [transport_ok : {TRUE}, status : Statuses \ {200}, json_ok : {TRUE},
          body : {14}]
    \cup [transport_ok : {TRUE}, status : {200}, json_ok : {FALSE}, body : {1}]
    \cup [transport_ok : {TRUE}, status : {200}, json_ok : {TRUE},
          body : 1..Len(Bodies)]

GetElevation ==
    \E r \in Responses :
        /\ Record([op |-> "get_elevation", args |-> r,
                   result |-> get_elevation(
                       Response(r.transport_ok, r.status, r.json_ok, Bodies[r.body]))])
        /\ UNCHANGED <<Session, rng>>

ClassifyFloodRisk ==
    \E elevation \in {PyNone} \cup {PyNum(e) : e \in Elevations} :
        /\ Record([op |-> "classify_flood_risk", args |-> elevation,
                   result |-> classify_flood_risk(elevation)])
        /\ UNCHANGED <<Session, rng>>

NextFlood == GetElevation \/ ClassifyFloodRisk

SpecFlood == Init /\ [][NextFlood]_vars

(***************************************************************************)
(* Claims about classify_flood_risk and get_elevation (SpecFlood)          *)
(***************************************************************************)
IsClassify(c) == c.op = "classify_flood_risk"

\* C1: classify_flood_risk is total and follows the threshold policy: None
\* gives Unknown; a numeric elevation e gives High when e < 5, Medium when
\* 5 <= e < 15 and Low when e >= 15; no such input produces an error.
C1_ThresholdPolicy ==
    IsClassify(call) /\ call.args.t \in {"None", "num"} =>
        /\ call.result # "TypeError"
        /\ IsNone(call.args) => call.result = "Unknown"
        /\ IsNum(call.args) =>
            /\ call.args.n < 5000 => call.result = "High Flood Risk"
            /\ call.args.n >= 5000 /\ call.args.n < 15000 =>
                   call.result = "Medium Flood Risk"
            /\ call.args.n >= 15000 => call.result = "Low Flood Risk"

\* the boundary cases have been classified: 5 is Medium after 0 was High
C1_Witness ==
    /\ IsClassify(prev) /\ IsNum(prev.args) /\ prev.args.n = 0
    /\ prev.result = "High Flood Risk"
    /\ IsClassify(call) /\ IsNum(call.args) /\ call.args.n = 5000
    /\ call.result = "Medium Flood Risk"

Severity(label) ==
    CASE label = "High Flood Risk"   -> 3
      [] label = "Medium Flood Risk" -> 2
      [] label = "Low Flood Risk"    -> 1
      [] OTHER                       -> 0

\* C9: classify_flood_risk is ordinal-monotonic: of two numeric elevations
\* the lower one never gets a label of lower severity than the higher one,
\* and no numeric elevation is labelled Unknown.
C9_Monotonic ==
    /\ IsClassify(call) /\ IsNum(call.args) => call.result # "Unknown"
    /\ (/\ IsClassify(prev) /\ IsNum(prev.args)
        /\ IsClassify(call) /\ IsNum(call.args)
        /\ prev.args.n < call.args.n)
       => Severity(prev.result) >= Severity(call.result)

\* two classifications in a row whose labels differ in severity
C9_Witness ==
    /\ IsClassify(prev) /\ IsNum(prev.args)
    /\ IsClassify(call) /\ IsNum(call.args)
    /\ prev.args.n = 14999 /\ call.args.n = 15000
    /\ Severity(prev.result) = 2 /\ Severity(call.result) = 1

\* the body has the shape {"results": [{"elevation": <number>}, ...]}
UsableBody(body) ==
    /\ body.t = "dict" /\ "results" \in body.keys
    /\ body.val["results"].t = "list"
    /\ Len(body.val["results"].items) > 0
    /\ body.val["results"].items[1].t = "dict"
    /\ "elevation" \in body.val["results"].items[1].keys
    /\ body.val["results"].items[1].val["elevation"].t = "num"

UsableResponse(r) ==
    r.transport_ok /\ r.status = 200 /\ r.json_ok /\ UsableBody(Bodies[r.body])

\* C6: get_elevation never raises and returns a number or None; it returns
\* None on transport failure, on a non-success status and on every body that
\* is not of the shape {"results": [{"elevation": <number>}, ...]}.
C6_NumberOrNone ==
    call.op = "get_elevation" =>
        /\ ~call.result.raised
        /\ call.result.value.t \in {"None", "num"}
        /\ ~UsableResponse(call.args) => IsNone(call.result.value)

(***************************************************************************)
(* Urban flood zones: flood_zones, point_in_bounds, check_urban_flood_risk *)
(***************************************************************************)
Zone(name, lat_min, lon_min, lat_max, lon_max) ==
    [name |-> name, bounds |-> <<<<lat_min, lon_min>>, <<lat_max, lon_max>>>>]

flood_zones_overlapping == <<
    Zone("Mumbai Flood Zone",    189000, 727500, 191500, 729500),
    Zone("Chennai Flood Zone",   130000, 802000, 131500, 803000),
    Zone("Kolkata Flood Zone",   224500, 883000, 226000, 884500),
    Zone("Delhi Flood Zone",     285500, 771500, 287500, 773500),
    Zone("Bengaluru Flood Zone", 129000, 775000, 130500, 802500) >>

flood_zones == <<
    Zone("Mumbai Flood Zone",    189000, 727500, 191500, 729500),
    Zone("Chennai Flood Zone",   130000, 802000, 131500, 803000),
    Zone("Kolkata Flood Zone",   224500, 883000, 226000, 884500),
    Zone("Delhi Flood Zone",     285500, 771500, 287500, 773500),
    Zone("Bengaluru Flood Zone", 129000, 775000, 130500, 776500) >>

point_in_bounds_strict(lat, lon, bounds) ==
    LET lat_min == bounds[1][1]  lon_min == bounds[1][2]
        lat_max == bounds[2][1]  lon_max == bounds[2][2]
    IN  lat_min < lat /\ lat < lat_max /\ lon_min < lon /\ lon < lon_max

point_in_bounds(lat, lon, bounds) ==
    LET lat_min == bounds[1][1]  lon_min == bounds[1][2]
        lat_max == bounds[2][1]  lon_max == bounds[2][2]
    IN  lat_min <= lat /\ lat <= lat_max /\ lon_min <= lon /\ lon <= lon_max

RECURSIVE scan_zones(_, _, _, _)
\* the for loop of check_urban_flood_risk over a zone list, from index i
scan_zones(zones, i, lat, lon) ==
    IF i > Len(zones) THEN "Low Urban Flood Risk"
    ELSE IF point_in_bounds(lat, lon, zones[i].bounds)
         THEN "High Urban Flood Risk (" \o zones[i].name \o ")"
         ELSE scan_zones(zones, i + 1, lat, lon)

check_urban_flood_risk(lat, lon) == scan_zones(flood_zones, 1, lat, lon)

\* coordinates on, next to and between the edges of the zones
EdgeLats ==
    UNION {{flood_zones[i].bounds[1][1] - Overshoot, flood_zones[i].bounds[1][1],
            flood_zones[i].bounds[1][1] + 500,
            flood_zones[i].bounds[2][1], flood_zones[i].bounds[2][1] + Overshoot}
           : i \in 1..Len(flood_zones)}
EdgeLons ==
    UNION {{flood_zones[i].bounds[1][2] - Overshoot, flood_zones[i].bounds[1][2],
            flood_zones[i].bounds[1][2] + 500,
            flood_zones[i].bounds[2][2], flood_zones[i].bounds[2][2] + Overshoot}
           : i \in 1..Len(flood_zones)}

CheckUrbanFloodRisk ==
    \E lat \in EdgeLats, lon \in EdgeLons :
        /\ Record([op |-> "check_urban_flood_risk", args |-> <<lat, lon>>,
                   result |-> check_urban_flood_risk(lat, lon)])
        /\ UNCHANGED <<Session, rng>>

NextZones == CheckUrbanFloodRisk

SpecZones == Init /\ [][NextZones]_vars

\* the indices of the zones whose rectangle contains the point, all four
\* edges included
Containing(zones, lat, lon) ==
    {i \in 1..Len(zones) :
        /\ zones[i].bounds[1][1] <= lat /\ lat <= zones[i].bounds[2][1]
        /\ zones[i].bounds[1][2] <= lon /\ lon <= zones[i].bounds[2][2]}

MinOf(S) == CHOOSE x \in S : \A y \in S : x <= y

\* C2: check_urban_flood_risk reports the first zone in list order whose
\* rectangle contains the point, edges and corners included, as "High Urban
\* Flood Risk (<zone name>)", and "Low Urban Flood Risk" exactly when no zone
\* contains the point.
C2_FirstContainingZone ==
    call.op = "check_urban_flood_risk" =>
        LET hits == Containing(flood_zones, call.args[1], call.args[2])
        IN  /\ (call.result = "Low Urban Flood Risk") <=> (hits = {})
            /\ hits # {} =>
                 call.result =
                    "High Urban Flood Risk (" \o flood_zones[MinOf(hits)].name \o ")"

\* the south-west corner of the Mumbai rectangle has been reported as inside
C2_Witness ==
    /\ call.op = "check_urban_flood_risk"
    /\ call.args = <<189000, 727500>>
    /\ call.result = "High Urban Flood Risk (Mumbai Flood Zone)"

\* the zone list in another order
Reordered(zones, p) == [i \in 1..Len(zones) |-> zones[p[i]]]

Disjoint(a, b) ==
    \/ a[2][1] < b[1][1] \/ b[2][1] < a[1][1]
    \/ a[2][2] < b[1][2] \/ b[2][2] < a[1][2]

\* C10: the rectangles of flood_zones are non-empty and pairwise disjoint,
\* so a point is in at most one zone and the result of
\* check_urban_flood_risk is the same for every ordering of the list.
C10_DisjointZones ==
    /\ \A i \in 1..Len(flood_zones) :
          /\ flood_zones[i].bounds[1][1] < flood_zones[i].bounds[2][1]
          /\ flood_zones[i].bounds[1][2] < flood_zones[i].bounds[2][2]
    /\ \A i, j \in 1..Len(flood_zones) :
          i < j => Disjoint(flood_zones[i].bounds, flood_zones[j].bounds)
    /\ call.op = "check_urban_flood_risk" =>
          /\ Cardinality(Containing(flood_zones, call.args[1], call.args[2])) <= 1
          /\ \A p \in Permutations(1..Len(flood_zones)) :
                scan_zones(Reordered(flood_zones, p), 1, call.args[1], call.args[2])
                    = call.result

\* a point inside exactly one zone has been looked up
C10_Witness ==
    /\ call.op = "check_urban_flood_risk"
    /\ Cardinality(Containing(flood_zones, call.args[1], call.args[2])) = 1
    /\ call.result = "High Urban Flood Risk (Bengaluru Flood Zone)"

(***************************************************************************)
(* Fire stations: fire_stations, estimate_response_time                    *)
(***************************************************************************)
Station(name, lat, lon) == [name |-> name, lat |-> lat, lon |-> lon]

fire_stations == <<
    Station("Mumbai Fire Station 1",    190150, 728500),
    Station("Mumbai Fire Station 2",    189750, 728100),
    Station("Chennai Fire Station 1",   130800, 802750),
    Station("Chennai Fire Station 2",   130650, 802500),
    Station("Kolkata Fire Station 1",   225700, 883600),
    Station("Kolkata Fire Station 2",   225300, 883800),
    Station("Delhi Fire Station 1",     286500, 772000),
    Station("Delhi Fire Station 2",     286200, 772200),
    Station("Bengaluru Fire Station 1", 129800, 775800),
    Station("Bengaluru Fire Station 2", 129500, 776000) >>

RECURSIVE isqrt_between(_, _, _)
\* the r with r * r <= n < (r + 1) * (r + 1), given lo * lo <= n < hi * hi
isqrt_between(n, lo, hi) ==
    IF hi - lo <= 1 THEN lo
    ELSE LET mid == (lo + hi) \div 2
         IN  IF mid * mid <= n THEN isqrt_between(n, mid, hi)
             ELSE isqrt_between(n, lo, mid)

ISqrt(n) == isqrt_between(n, 0, 46341)

\* length of the vector (a, b) for a, b >= 0; like a float, it keeps full
\* resolution for short vectors and a resolution of 16 for long ones
Hypot(a, b) ==
    IF a <= 30000 /\ b <= 30000 THEN ISqrt(a * a + b * b)
    ELSE 16 * ISqrt((a \div 16) * (a \div 16) + (b \div 16) * (b \div 16))

\* geopy's geodesic(p, q), in metres.  The ellipsoidal distance is modelled
\* by the planar distance on the 1e-4 degree grid at 11 m per unit: it is
\* non-negative, symmetric, and zero exactly when the two points coincide.
geodesic(lat1, lon1, lat2, lon2) ==
    11 * Hypot(Abs(lat1 - lat2), Abs(lon1 - lon2))

\* dist_km / 40 * 60 in units of 1/2000 minute
time_of(dist_m) == dist_m * 3

\* round(x, 1) for x in 1/2000 minute: tenths of a minute, ties to even
round1(x) ==
    LET q == x \div 200  r == x % 200
    IN  IF r < 100 THEN q
        ELSE IF r > 100 THEN q + 1
        ELSE IF q % 2 = 0 THEN q ELSE q + 1

\* min_time is None or time_min < min_time
improves_or_equal(time_min, min_time) ==
    IsNone(min_time) \/ time_min <= min_time.n

improves(time_min, min_time) ==
    IsNone(min_time) \/ time_min < min_time.n

RECURSIVE scan_stations(_, _, _, _, _, _)
\* the for loop of estimate_response_time from row i on
scan_stations(stations, i, lat, lon, min_time, closest_station) ==
    IF i > Len(stations)
    THEN [min_time |-> min_time, closest_station |-> closest_station]
    ELSE LET fs == stations[i]
             dist_m == geodesic(lat, lon, fs.lat, fs.lon)
             time_min == time_of(dist_m)
         IN  IF improves(time_min, min_time)
             THEN scan_stations(stations, i + 1, lat, lon,
                                PyNum(time_min), PyStr(fs.name))
             ELSE scan_stations(stations, i + 1, lat, lon,
                                min_time, closest_station)

\* closest_station, round(min_time, 1) if min_time else None
estimate_response_time(lat, lon) ==
    LET end == scan_stations(fire_stations, 1, lat, lon, PyNone, PyNone)
    IN  [closest_station |-> end.closest_station,
         response_time |-> IF Truthy(end.min_time)
                           THEN PyNum(round1(end.min_time.n))
                           ELSE PyNone]

\* query points: every station, the points next to it, the point half way
\* between the two stations of a city, the viewport centre and the corners
\* of the India box
QueryPoints ==
    UNION {{<<fire_stations[i].lat, fire_stations[i].lon>>,
            <<fire_stations[i].lat + Overshoot, fire_stations[i].lon>>,
            <<fire_stations[i].lat, fire_stations[i].lon - Overshoot>>}
           : i \in 1..Len(fire_stations)}
    \cup {<<(fire_stations[i].lat + fire_stations[i + 1].lat) \div 2,
            (fire_stations[i].lon + fire_stations[i + 1].lon) \div 2>>
           : i \in {1, 3, 5, 7, 9}}
    \cup {<<fire_stations[1].lat, fire_stations[2].lon>>}
    \cup {<<ViewportLatitude, ViewportLongitude>>}
    \cup ({LatMinValue, LatMaxValue} \X {LonMinValue, LonMaxValue})

EstimateResponseTime ==
    \E p \in QueryPoints :
        /\ Record([op |-> "estimate_response_time", args |-> p,
                   result |-> estimate_response_time(p[1], p[2])])
        /\ UNCHANGED <<Session, rng>>

NextStations == EstimateResponseTime

SpecStations == Init /\ [][NextStations]_vars

IsEstimate(c) == c.op = "estimate_response_time"

DistanceTo(i, p) == geodesic(p[1], p[2], fire_stations[i].lat, fire_stations[i].lon)

\* the stations at minimal distance from p
Nearest(p) ==
    {i \in 1..Len(fire_stations) :
        \A j \in 1..Len(fire_stations) : DistanceTo(i, p) <= DistanceTo(j, p)}

\* C3: estimate_response_time returns the name of a station at minimal
\* distance from the query point, the earliest one in registry order when
\* several are equidistant, and the same station on a repeated call with the
\* same point.
C3_NearestEarliest ==
    IsEstimate(call) =>
        /\ call.result.closest_station.t = "str"
        /\ call.result.closest_station.s = fire_stations[MinOf(Nearest(call.args))].name
        /\ IsEstimate(prev) /\ prev.args = call.args =>
              prev.result.closest_station.s = call.result.closest_station.s

\* a point equidistant from the two Mumbai stations was asked twice and the
\* first of the two was returned
C3_Witness ==
    /\ IsEstimate(call) /\ IsEstimate(prev) /\ prev.args = call.args
    /\ Cardinality(Nearest(call.args)) = 2
    /\ call.result.closest_station.s = "Mumbai Fire Station 1"

\* C4: with a non-empty registry the response time is never None: it is the
\* minimum distance / 40 * 60 rounded to one decimal place, also for a query
\* point that coincides with a station.
C4_TimeUnlessEmpty ==
    IsEstimate(call) /\ Len(fire_stations) > 0 =>
        /\ call.result.response_time.t = "num"
        /\ call.result.response_time.n =
              round1(3 * DistanceTo(MinOf(Nearest(call.args)), call.args))

(***************************************************************************)
(* create_pdf_report                                                       *)
(* The report is the sequence of its text lines, a line the sequence of    *)
(* the pieces its f-string is made of.                                     *)
(***************************************************************************)
Digits(n, width) ==
    IF width = 1 THEN ToString(n)
    ELSE IF width = 2 THEN (IF n < 10 THEN "0" ELSE "") \o ToString(n)
    ELSE IF width = 3
         THEN (IF n < 10 THEN "00" ELSE IF n < 100 THEN "0" ELSE "") \o ToString(n)
    ELSE (IF n < 10 THEN "000" ELSE IF n < 100 THEN "00"
          ELSE IF n < 1000 THEN "0" ELSE "") \o ToString(n)

\* f"{x:.6f}" of a coordinate in 1e-4 degree
format_6f(x) ==
    (IF x < 0 THEN "-" ELSE "") \o ToString(Abs(x) \div 10000) \o "."
        \o Digits(Abs(x) % 10000, 4) \o "00"

\* str(x) of a float given in thousandths
str_milli(x) ==
    LET whole == Abs(x) \div 1000  frac == Abs(x) % 1000
    IN  (IF x < 0 THEN "-" ELSE "") \o ToString(whole) \o "."
        \o (IF frac % 100 = 0 THEN Digits(frac \div 100, 1)
            ELSE IF frac % 10 = 0 THEN Digits(frac \div 10, 2)
            ELSE Digits(frac, 3))

\* str(x) of a float given in tenths
str_tenths(x) ==
    (IF x < 0 THEN "-" ELSE "") \o ToString(Abs(x) \div 10) \o "."
        \o ToString(Abs(x) % 10)

\* f"{v}" of a value that may be None or a string
str_of(v, number) ==
    CASE v.t = "None" -> "None"
      [] v.t = "str"  -> v.s
      [] v.t = "num"  -> number

create_pdf_report(lat, lon, elevation, flood_risk, urban_flood, fire_station, response_time, exposure) ==
    << <<"Property Insurance Underwriting Risk Analysis Report">>,
       <<"Location Coordinates: Latitude ", format_6f(lat), ", Longitude ",
         format_6f(lon)>>,
       <<"Elevation: ",
         IF ~IsNone(elevation) THEN str_of(elevation, str_milli(elevation.n))
         ELSE "N/A",
         " meters">>,
       <<"Flood Risk (Elevation Based): ", flood_risk>>,
       <<"Urban Flood Risk Zone: ", urban_flood>>,
       <<"Nearest Fire Station: ", str_of(fire_station, "")>>,
       <<"Fire Brigade Response Time Estimate: ",
         str_of(response_time, str_tenths(response_time.n)), " minutes">>,
       <<"Nearby Properties Exposure Risk:">>,
       <<"Latitude", "Longitude", "Risk Level">> >>
    \o [i \in 1..Len(exposure) |->
          <<format_6f(exposure[i].lat), format_6f(exposure[i].lon),
            exposure[i].risk>>]

ReportPoints == {<<ViewportLatitude, ViewportLongitude>>, <<190760, 728777>>,
                 <<fire_stations[1].lat, fire_stations[1].lon>>}

ReportElevations == {PyNone, PyNum(2000), PyNum(4999), PyNum(12500), PyNum(-1500)}

ReportTimes == {PyNone, PyNum(5), PyNum(73), PyNum(12051)}

ReportStations == {PyStr(fire_stations[1].name), PyStr(fire_stations[10].name)}

CreatePdfReport ==
    \E p \in ReportPoints, elevation \in ReportElevations,
       fire_station \in ReportStations, response_time \in ReportTimes,
       rows \in 0..MaxPoints :
        /\ Record([op |-> "create_pdf_report",
                   args |-> [lat |-> p[1], lon |-> p[2], elevation |-> elevation,
                             fire_station |-> fire_station,
                             response_time |-> response_time, rows |-> rows],
                   result |-> create_pdf_report(p[1], p[2], elevation,
                        classify_flood_risk(elevation),
                        check_urban_flood_risk(p[1], p[2]),
                        fire_station, response_time,
                        SubSeq(exposure_df, 1, rows))])
        /\ UNCHANGED <<Session, rng>>

NextReport == CreatePdfReport

SpecReport == Init /\ [][NextReport]_vars

ElevationLine == 3
ResponseTimeLine == 7

\* C5: create_pdf_report renders an absent elevation and an absent response
\* time as the literal "N/A", never as a blank, as "None" or as an error.
C5_AbsentIsNA ==
    call.op = "create_pdf_report" =>
        /\ IsNone(call.args.elevation) => call.result[ElevationLine][2] = "N/A"
        /\ IsNone(call.args.response_time) =>
              call.result[ResponseTimeLine][2] = "N/A"
        /\ call.result[ElevationLine][2] \notin {"", "None", "null"}
        /\ call.result[ResponseTimeLine][2] \notin {"", "None", "null"}

(***************************************************************************)
(* generate_surrounding_exposure as a function called on its own           *)
(***************************************************************************)
Centers == {ViewportLatitude, 190760} \X {ViewportLongitude, 728777}

GenerateSurroundingExposure ==
    \E c \in Centers, num_points \in 0..MaxPoints :
        LET run == generate_surrounding_exposure(rng, c[1], c[2], num_points)
        IN  /\ Record([op |-> "generate_surrounding_exposure",
                       args |-> <<c[1], c[2], num_points>>, result |-> run.df])
            /\ rng' = run.rng
            /\ UNCHANGED Session

\* other code draws from the same global generator between two calls
OtherRandomDraws ==
    \E k \in 1..MaxOtherDraws :
        /\ rng' = rng_after(rng, k)
        /\ UNCHANGED <<Session, call, prev>>

NextExposure == GenerateSurroundingExposure \/ OtherRandomDraws

SpecExposure == Init /\ [][NextExposure]_vars

IsGenerate(c) == c.op = "generate_surrounding_exposure"

\* C7: generate_surrounding_exposure is deterministic: two calls with the
\* same center and num_points return the same rows in the same order,
\* whatever was drawn in between, and each call returns num_points rows.
C7_Deterministic ==
    IsGenerate(call) =>
        /\ Len(call.result) = call.args[3]
        /\ IsGenerate(prev) /\ prev.args = call.args => prev.result = call.result

\* the same non-empty sample was asked for twice
C7_Witness ==
    /\ IsGenerate(call) /\ IsGenerate(prev) /\ prev.args = call.args
    /\ Len(call.result) = MaxPoints
    /\ call.result[1].lat # call.result[MaxPoints].lat

(***************************************************************************)
(* Claims about the session (SpecSession)                                  *)
(***************************************************************************)
InIndia(loc) ==
    /\ 60000 <= loc[1] /\ loc[1] <= 370000
    /\ 680000 <= loc[2] /\ loc[2] <= 975000

\* C8: the selected coordinate starts at the viewport center, always lies
\* inside India's bounding box, and changes only by being replaced, both
\* components in one step, by the two clamped input values.
C8_SelectedInIndia ==
    /\ selected_location = <<205937, 789629>>
    /\ []InIndia(selected_location)
    /\ [][selected_location' # selected_location =>
             /\ selected_location' = <<lat_input, lon_input>>
             /\ InIndia(<<lat_input, lon_input>>)]_vars

\* an update has moved the selection to a corner of the box
C8_Witness ==
    /\ selected_location = <<LatMinValue, LonMaxValue>>
    /\ lat_input = LatMinValue /\ lon_input = LonMaxValue

====
